---- MODULE Spec2Model ----
(***************************************************************************)
(* The intrusive circular doubly-linked list of the kernel-style test      *)
(* programs (struct list_head), with its traversal macros and the          *)
(* container_of owner recovery.                                            *)
(*                                                                         *)
(* Memory is a map from link addresses to the two pointer fields of the    *)
(* struct list_head stored there.  Two implementations of the ring         *)
(* operations exist in the sources and a program is built from one of     *)
(* them:                                                                   *)
(*   "complete"  src/test_files/test-kernel-complete.c  (direct writes,    *)
(*               list_del leaves the entry's pointers as they were)        *)
(*   "full"      src/test-kernel-full.c  (__list_add / __list_del,         *)
(*               list_del sets the entry's pointers to 0)                  *)
(*                                                                         *)
(* Specifications:                                                         *)
(*   Spec       one list, the caller's list_add / list_add_tail /          *)
(*              list_del, with the history of the calls kept               *)
(*   RingsSpec  two lists sharing the pool of records                      *)
(*   SafeSpec   one list and the list_for_each_safe loop, statement by     *)
(*              statement, with a body that unlinks pos or leaves it       *)
(*   SafeLive   SafeSpec with the running loop taking its next step        *)
(***************************************************************************)
EXTENDS Integers, Sequences, FiniteSets, TLC

\* Number of records in the pool the callers insert and unlink.
MaxNodes == 3

\* The null pointer written by list_del of test-kernel-full.c.
Null == 0

\* Content of a pointer field that was never written (struct list_head item;)
Uninit == 0 - 1

\* sizeof(int) and sizeof(struct list_head *) on the LP64 target.
SizeofInt == 4
SizeofPtr == 8

Impls == {"complete", "full"}

(***************************************************************************)
(* Record layouts.  A field is <<name, size, alignment>>.                  *)
(***************************************************************************)
ListHeadField(name) == <<name, 2 * SizeofPtr, SizeofPtr>>

\* "item":    struct list_head item;  the record is the link itself
\* "my_data": struct my_data { int id; struct list_head list; };
Layout(T) ==
  CASE T = "item"    -> << ListHeadField("list") >>
    [] T = "my_data" -> << <<"id", SizeofInt, SizeofInt>>, ListHeadField("list") >>

RecTypes == {"item", "my_data"}

\* (((x) + (a) - 1) & ~((a) - 1)) for a power of two a: x rounded up to a
\* multiple of a, the natural alignment the compiler gives a field.
ALIGN(x, a) == ((x + a - 1) \div a) * a

RECURSIVE FieldOffset(_, _, _, _)
FieldOffset(fields, member, i, at) ==
  IF i > Len(fields) THEN Uninit
  ELSE LET start == ALIGN(at, fields[i][3])
       IN IF fields[i][1] = member THEN start
          ELSE FieldOffset(fields, member, i + 1, start + fields[i][2])

\* offsetof(TYPE, MEMBER)
offsetof(T, member) == FieldOffset(Layout(T), member, 1, 0)

\* The record pointer and the link pointer taken for one another.
container_of_as_cast(ptr, T, member) == ptr

\* container_of(ptr, type, member): (type *)((char *)(ptr) - offsetof(type, member))
container_of(ptr, T, member) == ptr - offsetof(T, member)

\* list_entry(ptr, type, member)
list_entry(ptr, T, member) == container_of(ptr, T, member)

(***************************************************************************)
(* Addresses.                                                              *)
(***************************************************************************)
\* Address of the i-th record of the pool; the first one is at 0x1000.
RecAddr(i) == 4096 + 64 * (i - 1)

\* &rec->member for a record of type T at address r.
LinkOf(r, T) == r + offsetof(T, "list")

\* Address of the i-th sentinel (a global struct list_head).
Sentinel(i) == 8192 + 16 * (i - 1)

Heads == { Sentinel(1), Sentinel(2) }

Recs == { RecAddr(i) : i \in 1..MaxNodes }

Nodes(T) == { LinkOf(r, T) : r \in Recs }

Cells == Heads \cup UNION { Nodes(T) : T \in RecTypes }

Ptrs == Cells \cup {Null, Uninit}

(***************************************************************************)
(* The heap: h.next[p] and h.prev[p] are p->next and p->prev; h.fault is   *)
(* set once a pointer that addresses no struct list_head is dereferenced.  *)
(***************************************************************************)
Load(f, p) == IF p \in Cells THEN f[p] ELSE Uninit

SetNext(h, p, v) ==
  IF p \in Cells THEN [h EXCEPT !.next[p] = v] ELSE [h EXCEPT !.fault = TRUE]

SetPrev(h, p, v) ==
  IF p \in Cells THEN [h EXCEPT !.prev[p] = v] ELSE [h EXCEPT !.fault = TRUE]

NextOf(h, p) == Load(h.next, p)

PrevOf(h, p) == Load(h.prev, p)

\* INIT_LIST_HEAD(list)
INIT_LIST_HEAD(h, list) == SetPrev(SetNext(h, list, list), list, list)


(***************************************************************************)
(* Ring operations of test_files/test-kernel-complete.c.                   *)
(***************************************************************************)
\* A plausible slip: head->next is overwritten before it is re-read.
list_add_complete_early_head(h, new, head) ==
  LET h1 == SetNext(h, head, new)
      h2 == SetPrev(h1, NextOf(h1, head), new)
      h3 == SetNext(h2, new, NextOf(h2, head))
      h4 == SetPrev(h3, new, head)
  IN  h4

list_add_complete(h, new, head) ==
  LET h1 == SetPrev(h, NextOf(h, head), new)      \* head->next->prev = new;
      h2 == SetNext(h1, new, NextOf(h1, head))    \* new->next = head->next;
      h3 == SetPrev(h2, new, head)                \* new->prev = head;
      h4 == SetNext(h3, head, new)                \* head->next = new;
  IN  h4

\* A plausible slip: head->prev is overwritten before it is re-read.
list_add_tail_complete_early_head(h, new, head) ==
  LET h1 == SetPrev(h, head, new)
      h2 == SetNext(h1, PrevOf(h1, head), new)
      h3 == SetNext(h2, new, head)
      h4 == SetPrev(h3, new, PrevOf(h3, head))
  IN  h4

\* A plausible slip: the last statement stores to head->next.
list_add_tail_complete_wrong_field(h, new, head) ==
  LET h1 == SetNext(h, PrevOf(h, head), new)
      h2 == SetNext(h1, new, head)
      h3 == SetPrev(h2, new, PrevOf(h2, head))
      h4 == SetPrev(SetNext(h3, head, new), head, new)
  IN  h4

list_add_tail_complete(h, new, head) ==
  LET h1 == SetNext(h, PrevOf(h, head), new)      \* head->prev->next = new;
      h2 == SetNext(h1, new, head)                \* new->next = head;
      h3 == SetPrev(h2, new, PrevOf(h2, head))    \* new->prev = head->prev;
      h4 == SetPrev(h3, head, new)                \* head->prev = new;
  IN  h4

\* A plausible slip: the predecessor's forward pointer is left as it was.
list_del_complete_back_only(h, entry) ==
  SetPrev(h, NextOf(h, entry), PrevOf(h, entry))

list_del_complete(h, entry) ==
  LET h1 == SetNext(h, PrevOf(h, entry), NextOf(h, entry))     \* entry->prev->next = entry->next;
      h2 == SetPrev(h1, NextOf(h1, entry), PrevOf(h1, entry))  \* entry->next->prev = entry->prev;
  IN  h2

\* list_empty(head)
list_empty(h, head) == NextOf(h, head) = head

(***************************************************************************)
(* Ring operations of test-kernel-full.c.                                  *)
(***************************************************************************)
\* A plausible slip: the new node's back pointer is never written.
__list_add_no_back(h, new_node, prev, next) ==
  LET h1 == SetPrev(h, next, new_node)
      h2 == SetNext(h1, new_node, next)
      h4 == SetNext(h2, prev, new_node)
  IN  h4

\* __list_add(new_node, prev, next)
__list_add(h, new_node, prev, next) ==
  LET h1 == SetPrev(h, next, new_node)            \* next->prev = new_node;
      h2 == SetNext(h1, new_node, next)           \* new_node->next = next;
      h3 == SetPrev(h2, new_node, prev)           \* new_node->prev = prev;
      h4 == SetNext(h3, prev, new_node)           \* prev->next = new_node;
  IN  h4

list_add_full(h, new_node, head) ==
  __list_add(h, new_node, head, NextOf(h, head))

list_add_tail_full(h, new_node, head) ==
  __list_add(h, new_node, PrevOf(h, head), head)

\* A plausible slip: prev->next = prev.
__list_del_self(h, prev, next) ==
  SetNext(SetPrev(h, next, prev), prev, prev)

\* A plausible slip: the successor's back pointer is left as it was.
__list_del_fwd_only(h, prev, next) ==
  SetNext(h, prev, next)

\* __list_del(prev, next)
__list_del(h, prev, next) ==
  LET h1 == SetPrev(h, next, prev)                \* next->prev = prev;
      h2 == SetNext(h1, prev, next)               \* prev->next = next;
  IN  h2

list_del_full(h, entry) ==
  LET h1 == __list_del(h, PrevOf(h, entry), NextOf(h, entry))
      h2 == SetNext(h1, entry, Null)              \* entry->next = 0;
      h3 == SetPrev(h2, entry, Null)              \* entry->prev = 0;
  IN  h3

(***************************************************************************)
(* The operations of the implementation a program is built from.           *)
(***************************************************************************)
list_add(im, h, new, head) ==
  IF im = "complete" THEN list_add_complete(h, new, head)
                     ELSE list_add_full(h, new, head)

\* A plausible slip: the tail insert splices after the head.
list_add_tail_at_head(im, h, new, head) == list_add(im, h, new, head)

list_add_tail(im, h, new, head) ==
  IF im = "complete" THEN list_add_tail_complete(h, new, head)
                     ELSE list_add_tail_full(h, new, head)

list_del(im, h, entry) ==
  IF im = "complete" THEN list_del_complete(h, entry)
                     ELSE list_del_full(h, entry)

(***************************************************************************)
(* list_for_each(pos, head): the links the loop body sees, in order.  The  *)
(* walk is cut after Fuel steps, and at a pointer that addresses no link.  *)
(***************************************************************************)
Fuel == Cardinality(Cells) + 1

RECURSIVE ForEachFrom(_, _, _, _)
ForEachFrom(h, pos, head, fuel) ==
  IF pos = head \/ pos \notin Cells \/ fuel = 0 THEN << >>
  ELSE << pos >> \o ForEachFrom(h, NextOf(h, pos), head, fuel - 1)

\* A plausible slip: a do-while loop, whose body runs before the first test.
list_for_each_do_while(h, head) ==
  << NextOf(h, head) >>
    \o ForEachFrom(h, NextOf(h, NextOf(h, head)), head, Fuel)

list_for_each(h, head) == ForEachFrom(h, NextOf(h, head), head, Fuel)

\* The loop of list_for_each ends: pos reaches head.
RECURSIVE ReachesHead(_, _, _, _)
ReachesHead(h, pos, head, fuel) ==
  IF pos = head THEN TRUE
  ELSE IF pos \notin Cells \/ fuel = 0 THEN FALSE
  ELSE ReachesHead(h, NextOf(h, pos), head, fuel - 1)

ForEachEnds(h, head) == ReachesHead(h, NextOf(h, head), head, Fuel)

\* A plausible slip: the entry of ptr itself, not of (ptr)->next.
list_first_entry_of_head(h, ptr, T, member) == list_entry(ptr, T, member)

\* list_first_entry(ptr, type, member)
list_first_entry(h, ptr, T, member) == list_entry(NextOf(h, ptr), T, member)

Range(s) == { s[i] : i \in 1..Len(s) }

\* The members of the ring anchored at head.
Members(h, head) == Range(list_for_each(h, head))

\* The sentinel whose ring x is a member of, or Null.
RingOf(h, x) ==
  IF \E hd \in Heads : x \in Members(h, hd)
  THEN CHOOSE hd \in Heads : x \in Members(h, hd)
  ELSE Null


(***************************************************************************)
(* State.                                                                  *)
(***************************************************************************)
VARIABLES
  impl,        \* the implementation the program is built from
  rtype,       \* the record type whose instances are threaded on the lists
  mem,         \* the heap
  owner,       \* per link: the record pointer whose link the caller inserted
  pending,     \* per sentinel: inserts performed minus unlinks performed
  insKind,     \* per sentinel: how the present members were inserted
  insLog,      \* per sentinel: the links inserted, oldest first, while no unlink intervened
  scen,        \* how far the history so far follows Script; Off once it left it
  lastUnlink,  \* the link unlinked last and the sentinel of the ring it was in
  pc,          \* where the list_for_each_safe loop of the caller stands
  thead,       \* its head
  pos,         \* its cursor
  nxt,         \* its captured next pointer (n)
  yielded,     \* the links its body has seen
  recovered,   \* per link seen: <<list_entry(pos), the record pointer inserted>>
  orig,        \* the members when it started
  allDel,      \* its body has unlinked every link it has seen
  staleRead,   \* its advance read the next pointer of a link outside the ring
  misuse,      \* the call that broke the caller's contract, if one was made
  race,        \* two contexts inside list_add / list_add_tail at once
  stolen,      \* the link another context unlinked during a list_for_each_safe
  prog         \* the program of test-kernel-full.c: add_item, remove_item

vars == << impl, rtype, mem, owner, pending, insKind, insLog, scen, lastUnlink,
           pc, thead, pos, nxt, yielded, recovered, orig, allDel, staleRead,
           misuse, race, stolen, prog >>

auxVars == << misuse, race, stolen, prog >>

histVars == << pending, insKind, insLog, scen, lastUnlink >>

travVars == << pc, thead, pos, nxt, yielded, recovered, orig, allDel, staleRead >>

Off == 0 - 1

\* &rec->list for a record of the pool.
Link(r) == LinkOf(r, rtype)

Pool == Nodes(rtype)

\* The scenario: A, B, C inserted at the tail, B unlinked, then A, then C.
Script ==
  << [op |-> "add_tail", node |-> Link(RecAddr(1)), list |-> Sentinel(1)],
     [op |-> "add_tail", node |-> Link(RecAddr(2)), list |-> Sentinel(1)],
     [op |-> "add_tail", node |-> Link(RecAddr(3)), list |-> Sentinel(1)],
     [op |-> "del",      node |-> Link(RecAddr(2)), list |-> Sentinel(1)],
     [op |-> "del",      node |-> Link(RecAddr(1)), list |-> Sentinel(1)],
     [op |-> "del",      node |-> Link(RecAddr(3)), list |-> Sentinel(1)] >>

Follow(o) ==
  IF scen # Off /\ scen < Len(Script) /\ Script[scen + 1] = o THEN scen + 1 ELSE Off

EmptyHeap ==
  [next |-> [c \in Cells |-> Uninit], prev |-> [c \in Cells |-> Uninit], fault |-> FALSE]

NoUnlink == [node |-> Null, list |-> Null]

NoMisuse == [kind |-> "none", node |-> Null, list |-> Null, from |-> Null]

NoRace == [on |-> FALSE]

NoProg == [pc |-> "off"]

InitAny ==
  /\ impl \in Impls
  /\ rtype \in RecTypes
  /\ mem = INIT_LIST_HEAD(INIT_LIST_HEAD(EmptyHeap, Sentinel(1)), Sentinel(2))
  /\ owner = [c \in Cells |-> Null]
  /\ pending = [hd \in Heads |-> 0]
  /\ insKind = [hd \in Heads |-> "none"]
  /\ insLog = [hd \in Heads |-> << >>]
  /\ scen = 0
  /\ lastUnlink = NoUnlink
  /\ pc = "idle"
  /\ thead = Null
  /\ pos = Null
  /\ nxt = Null
  /\ yielded = << >>
  /\ recovered = << >>
  /\ orig = << >>
  /\ allDel = TRUE
  /\ staleRead = FALSE
  /\ misuse = NoMisuse
  /\ race = NoRace
  /\ stolen = Null
  /\ prog = NoProg

(***************************************************************************)
(* The caller's ring operations.  An insert is given a link that is no     *)
(* member of any ring, an unlink a member: the caller keeps track of the   *)
(* records it has inserted (owner).                                        *)
(***************************************************************************)
DoListAdd(r, hd) ==
  /\ pc = "idle"
  /\ owner[Link(r)] = Null
  /\ mem' = list_add(impl, mem, Link(r), hd)          \* list_add(&r->list, hd)
  /\ owner' = [owner EXCEPT ![Link(r)] = r]
  /\ UNCHANGED << impl, rtype, auxVars, travVars >>

DoListAddTail(r, hd) ==
  /\ pc = "idle"
  /\ owner[Link(r)] = Null
  /\ mem' = list_add_tail(impl, mem, Link(r), hd)     \* list_add_tail(&r->list, hd)
  /\ owner' = [owner EXCEPT ![Link(r)] = r]
  /\ UNCHANGED << impl, rtype, auxVars, travVars >>

DoListDel(r) ==
  /\ pc = "idle"
  /\ owner[Link(r)] # Null
  /\ mem' = list_del(impl, mem, Link(r))              \* list_del(&r->list)
  /\ owner' = [owner EXCEPT ![Link(r)] = Null]
  /\ UNCHANGED << impl, rtype, auxVars, travVars >>

(***************************************************************************)
(* The same operations with the history of the calls kept.                 *)
(***************************************************************************)
NoteInsert(kind, x, hd) ==
  /\ pending' = [pending EXCEPT ![hd] = @ + 1]
  /\ insKind' = [insKind EXCEPT ![hd] =
                   IF @ = "none" \/ @ = kind THEN kind ELSE "mixed"]
  /\ insLog' = [insLog EXCEPT ![hd] =
                   IF insKind[hd] = "none" \/ insKind[hd] = kind
                   THEN Append(@, x) ELSE << >>]
  /\ scen' = Follow([op |-> kind, node |-> x, list |-> hd])
  /\ UNCHANGED lastUnlink

NoteUnlink(x, hd) ==
  /\ pending' = [pending EXCEPT ![hd] = @ - 1]
  /\ insKind' = [insKind EXCEPT ![hd] = IF pending[hd] = 1 THEN "none" ELSE "mixed"]
  /\ insLog' = [insLog EXCEPT ![hd] = << >>]
  /\ scen' = Follow([op |-> "del", node |-> x, list |-> hd])
  /\ lastUnlink' = [node |-> x, list |-> hd]

ListAdd(r, hd) == DoListAdd(r, hd) /\ NoteInsert("add", Link(r), hd)

ListAddTail(r, hd) == DoListAddTail(r, hd) /\ NoteInsert("add_tail", Link(r), hd)

ListDel(r) == DoListDel(r) /\ NoteUnlink(Link(r), RingOf(mem, Link(r)))

Init == InitAny /\ rtype = "my_data"

\* One list, as in the test programs: kernel_list, my_list.
OneList == { Sentinel(1) }

Next ==
  \/ \E r \in Recs, hd \in OneList : ListAdd(r, hd)
  \/ \E r \in Recs, hd \in OneList : ListAddTail(r, hd)
  \/ \E r \in Recs : ListDel(r)

Spec == Init /\ [][Next]_vars

(***************************************************************************)
(* Two lists that share the pool of records; of the history only the       *)
(* count of pending inserts and the last unlink are kept.                  *)
(***************************************************************************)
RingAdd(r, hd) ==
  /\ DoListAdd(r, hd)
  /\ pending' = [pending EXCEPT ![hd] = @ + 1]
  /\ UNCHANGED << insKind, insLog, scen, lastUnlink >>

RingAddTail(r, hd) ==
  /\ DoListAddTail(r, hd)
  /\ pending' = [pending EXCEPT ![hd] = @ + 1]
  /\ UNCHANGED << insKind, insLog, scen, lastUnlink >>

RingDel(r) ==
  /\ DoListDel(r)
  /\ pending' = [pending EXCEPT ![RingOf(mem, Link(r))] = @ - 1]
  /\ lastUnlink' = [node |-> Link(r), list |-> RingOf(mem, Link(r))]
  /\ UNCHANGED << insKind, insLog, scen >>

RingsNext ==
  \/ \E r \in Recs, hd \in Heads : RingAdd(r, hd)
  \/ \E r \in Recs, hd \in Heads : RingAddTail(r, hd)
  \/ \E r \in Recs : RingDel(r)

RingsSpec == Init /\ [][RingsNext]_vars

(***************************************************************************)
(* list_for_each_safe(pos, n, head) with a body that unlinks pos or leaves *)
(* it, on rings built by the caller's operations.                          *)
(***************************************************************************)
BuildAdd(r, hd) == DoListAdd(r, hd) /\ UNCHANGED histVars

BuildAddTail(r, hd) == DoListAddTail(r, hd) /\ UNCHANGED histVars

BuildDel(r) == DoListDel(r) /\ UNCHANGED histVars

\* The advance of plain list_for_each, used in the safe loop: pos = pos->next.
PlainAdvance(h, p, n) ==
  [pos |-> NextOf(h, p), n |-> NextOf(h, NextOf(h, p)), read |-> {p, NextOf(h, p)}]

\* A plausible slip: n is not captured again after pos = n.
SafeAdvance_no_recapture(h, p, n) ==
  [pos |-> n, n |-> n, read |-> {}]

\* pos = n, n = pos->next
SafeAdvance(h, p, n) ==
  [pos |-> n, n |-> NextOf(h, n), read |-> {n}]

SafeStart(hd) ==
  /\ pc = "idle"
  /\ thead' = hd
  /\ pos' = NextOf(mem, hd)                     \* pos = (head)->next,
  /\ nxt' = NextOf(mem, NextOf(mem, hd))        \* n = pos->next
  /\ orig' = list_for_each(mem, hd)
  /\ yielded' = << >>
  /\ recovered' = << >>
  /\ allDel' = TRUE
  /\ staleRead' = FALSE
  /\ pc' = "test"
  /\ UNCHANGED << impl, rtype, auxVars, mem, owner, histVars >>

SafeTest ==
  /\ pc = "test"
  /\ IF pos # thead                             \* pos != (head)
     THEN /\ pc' = "body"
          /\ yielded' = Append(yielded, pos)
          /\ recovered' = Append(recovered,
                                  << list_entry(pos, rtype, "list"), Load(owner, pos) >>)
     ELSE /\ pc' = "done"
          /\ UNCHANGED << yielded, recovered >>
  /\ UNCHANGED << impl, rtype, auxVars, mem, owner, histVars, thead, pos, nxt, orig,
                  allDel, staleRead >>

SafeBodyDel ==
  /\ pc = "body"
  /\ mem' = list_del(impl, mem, pos)
  /\ owner' = [c \in Cells |-> IF c = pos THEN Null ELSE owner[c]]
  /\ pc' = "step"
  /\ UNCHANGED << impl, rtype, auxVars, histVars, thead, pos, nxt, yielded, recovered, orig,
                  allDel, staleRead >>

SafeBodyKeep ==
  /\ pc = "body"
  /\ allDel' = FALSE
  /\ pc' = "step"
  /\ UNCHANGED << impl, rtype, auxVars, mem, owner, histVars, thead, pos, nxt, yielded, recovered,
                  orig, staleRead >>

SafeStep ==
  /\ pc = "step"
  /\ LET a == SafeAdvance(mem, pos, nxt)
     IN  /\ pos' = a.pos
         /\ nxt' = a.n
         /\ staleRead' = (staleRead \/
                          \E c \in a.read : c # thead /\ c \notin Members(mem, thead))
  /\ pc' = "test"
  /\ UNCHANGED << impl, rtype, auxVars, mem, owner, histVars, thead, yielded, recovered,
                  orig, allDel >>

SafeDone ==
  /\ pc = "done"
  /\ pc' = "idle"
  /\ thead' = Null
  /\ pos' = Null
  /\ nxt' = Null
  /\ yielded' = << >>
  /\ recovered' = << >>
  /\ orig' = << >>
  /\ allDel' = TRUE
  /\ staleRead' = FALSE
  /\ UNCHANGED << impl, rtype, auxVars, mem, owner, histVars >>

SafeNext ==
  \/ \E r \in Recs, hd \in OneList : BuildAdd(r, hd)
  \/ \E r \in Recs, hd \in OneList : BuildAddTail(r, hd)
  \/ \E r \in Recs : BuildDel(r)
  \/ \E hd \in OneList : SafeStart(hd)
  \/ SafeTest
  \/ SafeBodyDel
  \/ SafeBodyKeep
  \/ SafeStep
  \/ SafeDone

SafeSpec == InitAny /\ [][SafeNext]_vars

SafeLive ==
  /\ SafeSpec
  /\ WF_vars(SafeTest)
  /\ WF_vars(SafeBodyDel \/ SafeBodyKeep)
  /\ WF_vars(SafeStep)

(***************************************************************************)
(* Calls that break the caller's contract.  The ring operations test       *)
(* nothing (BUG_ON of test_files/test-kernel-types.c has an empty body),   *)
(* so such a call runs the same pointer stores as a valid one.  The state  *)
(* after it is followed no further.                                        *)
(***************************************************************************)
\* list_add of a link that is a member of a ring.
AddMember(r, hd) ==
  /\ pc = "idle"
  /\ owner[Link(r)] # Null
  /\ mem' = list_add(impl, mem, Link(r), hd)
  /\ misuse' = [kind |-> "add", node |-> Link(r), list |-> hd,
                from |-> RingOf(mem, Link(r))]
  /\ UNCHANGED << impl, rtype, owner, histVars, travVars, race, stolen, prog >>

\* list_add_tail of a link that is a member of a ring.
AddTailMember(r, hd) ==
  /\ pc = "idle"
  /\ owner[Link(r)] # Null
  /\ mem' = list_add_tail(impl, mem, Link(r), hd)
  /\ misuse' = [kind |-> "add_tail", node |-> Link(r), list |-> hd,
                from |-> RingOf(mem, Link(r))]
  /\ UNCHANGED << impl, rtype, owner, histVars, travVars, race, stolen, prog >>

\* list_del of a link that list_del has unlinked and no call has inserted since:
\* it is no member, and its pointers have been written.
DelAgain(r) ==
  /\ pc = "idle"
  /\ owner[Link(r)] = Null
  /\ NextOf(mem, Link(r)) # Uninit
  /\ mem' = list_del(impl, mem, Link(r))
  /\ misuse' = [kind |-> "del", node |-> Link(r), list |-> Null, from |-> Null]
  /\ UNCHANGED << impl, rtype, owner, histVars, travVars, race, stolen, prog >>

\* list_del of the sentinel.
DelSentinel(hd) ==
  /\ pc = "idle"
  /\ mem' = list_del(impl, mem, hd)
  /\ misuse' = [kind |-> "del_head", node |-> hd, list |-> hd, from |-> hd]
  /\ UNCHANGED << impl, rtype, owner, histVars, travVars, race, stolen, prog >>

MisuseNext ==
  \/ misuse = NoMisuse /\ \E r \in Recs, hd \in OneList : BuildAdd(r, hd)
  \/ misuse = NoMisuse /\ \E r \in Recs, hd \in OneList : BuildAddTail(r, hd)
  \/ misuse = NoMisuse /\ \E r \in Recs : BuildDel(r)
  \/ misuse = NoMisuse /\ \E r \in Recs, hd \in OneList : AddMember(r, hd)
  \/ misuse = NoMisuse /\ \E r \in Recs, hd \in OneList : AddTailMember(r, hd)
  \/ misuse = NoMisuse /\ \E r \in Recs : DelAgain(r)
  \/ misuse = NoMisuse /\ \E hd \in OneList : DelSentinel(hd)

\* The member is inserted into a ring other than its own.
CrossAdd(r, hd) ==
  /\ owner[Link(r)] # Null
  /\ Link(r) \notin Members(mem, hd)
  /\ AddMember(r, hd)

CrossAddTail(r, hd) ==
  /\ owner[Link(r)] # Null
  /\ Link(r) \notin Members(mem, hd)
  /\ AddTailMember(r, hd)

CrossNext ==
  \/ misuse = NoMisuse /\ \E r \in Recs, hd \in Heads : BuildAdd(r, hd)
  \/ misuse = NoMisuse /\ \E r \in Recs, hd \in Heads : BuildAddTail(r, hd)
  \/ misuse = NoMisuse /\ \E r \in Recs : BuildDel(r)
  \/ misuse = NoMisuse /\ \E r \in Recs, hd \in Heads : CrossAdd(r, hd)
  \/ misuse = NoMisuse /\ \E r \in Recs, hd \in Heads : CrossAddTail(r, hd)

CrossSpec == Init /\ [][CrossNext]_vars

MisuseSpec == Init /\ [][MisuseNext]_vars

(***************************************************************************)
(* Two contexts inside list_add / list_add_tail at once, with no lock:     *)
(* each call is the sequence of its pointer loads and stores, in program   *)
(* order, and the loads and stores of the two calls interleave.  tmp is    *)
(* the pointer the call has loaded last.                                   *)
(***************************************************************************)
Contexts == {1, 2}

\* The number of loads and stores of one call.
NAccess(im) == IF im = "complete" THEN 6 ELSE 5

\* The k-th load or store of list_add(new, head).
AddAccess(im, k, h, new, head, tmp) ==
  IF im = "complete" THEN
    CASE k = 1 -> [h |-> h, tmp |-> NextOf(h, head)]           \* head->next
      [] k = 2 -> [h |-> SetPrev(h, tmp, new), tmp |-> tmp]    \*   ->prev = new;
      [] k = 3 -> [h |-> h, tmp |-> NextOf(h, head)]           \* head->next
      [] k = 4 -> [h |-> SetNext(h, new, tmp), tmp |-> tmp]    \* new->next = ..;
      [] k = 5 -> [h |-> SetPrev(h, new, head), tmp |-> tmp]   \* new->prev = head;
      [] k = 6 -> [h |-> SetNext(h, head, new), tmp |-> tmp]   \* head->next = new;
  ELSE
    CASE k = 1 -> [h |-> h, tmp |-> NextOf(h, head)]           \* next = head->next
      [] k = 2 -> [h |-> SetPrev(h, tmp, new), tmp |-> tmp]    \* next->prev = new_node;
      [] k = 3 -> [h |-> SetNext(h, new, tmp), tmp |-> tmp]    \* new_node->next = next;
      [] k = 4 -> [h |-> SetPrev(h, new, head), tmp |-> tmp]   \* new_node->prev = prev;
      [] k = 5 -> [h |-> SetNext(h, head, new), tmp |-> tmp]   \* prev->next = new_node;

\* The k-th load or store of list_add_tail(new, head).
AddTailAccess(im, k, h, new, head, tmp) ==
  IF im = "complete" THEN
    CASE k = 1 -> [h |-> h, tmp |-> PrevOf(h, head)]           \* head->prev
      [] k = 2 -> [h |-> SetNext(h, tmp, new), tmp |-> tmp]    \*   ->next = new;
      [] k = 3 -> [h |-> SetNext(h, new, head), tmp |-> tmp]   \* new->next = head;
      [] k = 4 -> [h |-> h, tmp |-> PrevOf(h, head)]           \* head->prev
      [] k = 5 -> [h |-> SetPrev(h, new, tmp), tmp |-> tmp]    \* new->prev = ..;
      [] k = 6 -> [h |-> SetPrev(h, head, new), tmp |-> tmp]   \* head->prev = new;
  ELSE
    CASE k = 1 -> [h |-> h, tmp |-> PrevOf(h, head)]           \* prev = head->prev
      [] k = 2 -> [h |-> SetPrev(h, head, new), tmp |-> tmp]   \* next->prev = new_node;
      [] k = 3 -> [h |-> SetNext(h, new, head), tmp |-> tmp]   \* new_node->next = next;
      [] k = 4 -> [h |-> SetPrev(h, new, tmp), tmp |-> tmp]    \* new_node->prev = prev;
      [] k = 5 -> [h |-> SetNext(h, tmp, new), tmp |-> tmp]    \* prev->next = new_node;

\* A plausible slip: the store to the back pointer of the old first link is
\* left out of list_add.
Access_no_back(im, kind, k, h, new, head, tmp) ==
  IF kind = "add" THEN
    IF k = 2 THEN [h |-> h, tmp |-> tmp] ELSE AddAccess(im, k, h, new, head, tmp)
  ELSE AddTailAccess(im, k, h, new, head, tmp)

\* A call that tests what it has loaded: it stores nothing once it has loaded
\* the node itself from the sentinel.
Access_checked(im, kind, k, h, new, head, tmp) ==
  IF tmp = new THEN [h |-> h, tmp |-> tmp]
  ELSE IF kind = "add" THEN AddAccess(im, k, h, new, head, tmp)
                       ELSE AddTailAccess(im, k, h, new, head, tmp)

Access(im, kind, k, h, new, head, tmp) ==
  IF kind = "add" THEN AddAccess(im, k, h, new, head, tmp)
                  ELSE AddTailAccess(im, k, h, new, head, tmp)

\* The whole call, run alone.
RECURSIVE RunFrom(_, _, _, _, _, _, _)
RunFrom(im, kind, k, h, new, head, tmp) ==
  IF k > NAccess(im) THEN h
  ELSE LET a == Access(im, kind, k, h, new, head, tmp)
       IN  RunFrom(im, kind, k + 1, a.h, new, head, a.tmp)

\* Both contexts enter an insert of the same link, which is no member.
RaceStart(r, hd, k1, k2) ==
  /\ pc = "idle"
  /\ race = NoRace
  /\ owner[Link(r)] = Null
  /\ race' = [on |-> TRUE, head |-> hd, sawNew |-> FALSE, overlap |-> FALSE,
              th |-> [t \in Contexts |->
                        [kind |-> IF t = 1 THEN k1 ELSE k2, new |-> Link(r),
                         at |-> 1, tmp |-> Null]]]
  /\ UNCHANGED << impl, rtype, mem, owner, histVars, travVars, misuse, stolen, prog >>

\* The two contexts enter inserts of two different links, neither a member.
RaceStartPair(r1, r2, hd, k1, k2) ==
  /\ pc = "idle"
  /\ race = NoRace
  /\ r1 # r2
  /\ owner[Link(r1)] = Null
  /\ owner[Link(r2)] = Null
  /\ race' = [on |-> TRUE, head |-> hd, sawNew |-> FALSE, overlap |-> FALSE,
              th |-> [t \in Contexts |->
                        [kind |-> IF t = 1 THEN k1 ELSE k2,
                         new |-> IF t = 1 THEN Link(r1) ELSE Link(r2),
                         at |-> 1, tmp |-> Null]]]
  /\ UNCHANGED << impl, rtype, mem, owner, histVars, travVars, misuse, stolen, prog >>

\* Context t is between the first and the last load or store of its call.
InCall(t) == race.th[t].at > 1 /\ race.th[t].at <= NAccess(impl)

\* Context t performs its next load or store.  sawNew: a call has loaded the
\* node from the sentinel; overlap: a call has run while the other was in its call.
RaceStep(t) ==
  /\ race.on
  /\ race.th[t].at <= NAccess(impl)
  /\ LET me == race.th[t]
         a  == Access(impl, me.kind, me.at, mem, me.new, race.head, me.tmp)
     IN  /\ mem' = a.h
         /\ race' = [race EXCEPT !.th[t].at = @ + 1,
                                 !.th[t].tmp = a.tmp,
                                 !.sawNew = @ \/ (a.h = mem /\ a.tmp = me.new),
                                 !.overlap = @ \/ \E o \in Contexts \ {t} : InCall(o)]
  /\ UNCHANGED << impl, rtype, owner, histVars, travVars, misuse, stolen, prog >>

\* The records of the pool are taken into use in the order of their addresses:
\* the unused records differ in nothing but their address.
InOrder(r) ==
  NextOf(mem, Link(r)) = Uninit =>
    \A q \in Recs : q < r => NextOf(mem, Link(q)) # Uninit

\* The race starts on a ring built by inserts at either end; the node the two
\* calls insert has not been used before.
RaceNext ==
  \/ race = NoRace /\ \E r \in Recs, hd \in OneList : InOrder(r) /\ BuildAdd(r, hd)
  \/ race = NoRace /\ \E r \in Recs, hd \in OneList : InOrder(r) /\ BuildAddTail(r, hd)
  \/ \E r \in Recs, hd \in OneList, k1, k2 \in {"add", "add_tail"} : RaceStart(r, hd, k1, k2)
  \/ \E t \in Contexts : RaceStep(t)

RaceSpec == Init /\ [][RaceNext]_vars

\* The same with two different nodes, one for each call.
RacePairNext ==
  \/ race = NoRace /\ \E r \in Recs, hd \in OneList : InOrder(r) /\ BuildAdd(r, hd)
  \/ race = NoRace /\ \E r \in Recs, hd \in OneList : InOrder(r) /\ BuildAddTail(r, hd)
  \/ \E r1, r2 \in Recs, hd \in OneList, k1, k2 \in {"add", "add_tail"} :
       RaceStartPair(r1, r2, hd, k1, k2)
  \/ \E t \in Contexts : RaceStep(t)

RacePairSpec == Init /\ [][RacePairNext]_vars

(***************************************************************************)
(* list_for_each_safe on a list that another context unlinks from, with no *)
(* lock: the other context's list_del runs between two steps of the loop   *)
(* and takes the link the loop holds in n.                                 *)
(***************************************************************************)
MutatorDel ==
  /\ pc \in {"body", "step"}
  /\ stolen = Null
  /\ nxt # thead
  /\ nxt \in Cells
  /\ owner[nxt] # Null
  /\ mem' = list_del(impl, mem, nxt)
  /\ owner' = [owner EXCEPT ![nxt] = Null]
  /\ stolen' = nxt
  /\ UNCHANGED << impl, rtype, histVars, travVars, misuse, race, prog >>

\* n = pos->next with a pos that addresses no link: the load of the loop's
\* advance goes through a null pointer.
SafeCrash ==
  /\ pc = "step"
  /\ nxt \notin Cells
  /\ pc' = "crash"
  /\ UNCHANGED << impl, rtype, auxVars, mem, owner, histVars, thead, pos, nxt, yielded,
                  recovered, orig, allDel, staleRead >>

MutNext ==
  \/ \E r \in Recs, hd \in OneList : BuildAdd(r, hd)
  \/ \E r \in Recs, hd \in OneList : BuildAddTail(r, hd)
  \/ \E r \in Recs : BuildDel(r)
  \/ \E hd \in OneList : SafeStart(hd)
  \/ SafeTest
  \/ SafeBodyDel
  \/ SafeBodyKeep
  \/ nxt \in Cells /\ SafeStep
  \/ SafeCrash
  \/ MutatorDel
  \/ stolen = Null /\ SafeDone

MutSpec == Init /\ [][MutNext]_vars

(***************************************************************************)
(* The program of test-kernel-full.c: my_list, add_item, remove_item and   *)
(* main.  add_item and remove_item are called with ids of a small set, in  *)
(* any order; prog.main follows the calls main makes, prog.removes is 0    *)
(* before the first call of remove_item, 1 from that call on and 2 from    *)
(* the second call on.                                                     *)
(***************************************************************************)
MaxId == 3

Ids == 1..MaxId

\* add_item: struct my_data *data = (struct my_data *)0x1000;
Data == RecAddr(1)

my_list == Sentinel(1)

\* main: add_item(1); add_item(2); remove_item(1);
MainCalls == << << "add_item", 1 >>, << "add_item", 2 >>, << "remove_item", 1 >> >>

FollowMain(call) ==
  IF prog.main # Off /\ prog.main < Len(MainCalls) /\ MainCalls[prog.main + 1] = call
  THEN prog.main + 1 ELSE Off

\* remove_item: (char *)pos - 16
RemoveItemOffset == 16

\* remove_item: struct my_data *data = (struct my_data *)((char *)pos - 16);
remove_item_data(p) == p - RemoveItemOffset

\* The int a load of data->id gives: the id add_item stored when data is the
\* record, any value when data addresses no record.
IdAt(data) == IF data = Data THEN {prog.id} ELSE Ids \cup {Uninit}

\* main: my_list.next = &my_list; my_list.prev = &my_list;
MainStart ==
  /\ prog = NoProg
  /\ mem' = INIT_LIST_HEAD(mem, my_list)
  /\ prog' = [pc |-> "idle", id |-> Uninit, arg |-> Uninit, pos |-> Null, main |-> 0,
              removes |-> 0]
  /\ UNCHANGED << impl, rtype, owner, histVars, travVars, misuse, race, stolen >>

\* add_item: the record it writes and the heap after its list_add_tail.
add_item(h, id) ==
  [rec |-> Data, h |-> list_add_tail_full(h, LinkOf(Data, "my_data"), my_list)]

AddItem(id) ==
  /\ prog.pc = "idle"
  /\ LET a == add_item(mem, id)
     IN  /\ mem' = a.h
         /\ owner' = [owner EXCEPT ![LinkOf(a.rec, "my_data")] = a.rec]
  /\ prog' = [prog EXCEPT !.id = id,                               \* data->id = id;
                          !.main = FollowMain(<< "add_item", id >>)]
  /\ UNCHANGED << impl, rtype, histVars, travVars, misuse, race, stolen >>

\* remove_item: pos = my_list.next
RemoveStart(id) ==
  /\ prog.pc = "idle"
  /\ prog' = [prog EXCEPT !.pc = "test", !.arg = id, !.pos = NextOf(mem, my_list),
                          !.main = FollowMain(<< "remove_item", id >>),
                          !.removes = IF @ = 0 THEN 1 ELSE 2]
  /\ UNCHANGED << impl, rtype, mem, owner, histVars, travVars, misuse, race, stolen >>

\* remove_item: pos != &my_list
RemoveTest ==
  /\ prog.pc = "test"
  /\ prog' = [prog EXCEPT !.pc = IF prog.pos # my_list THEN "body" ELSE "idle"]
  /\ UNCHANGED << impl, rtype, mem, owner, histVars, travVars, misuse, race, stolen >>

\* remove_item: data = (char *)pos - 16; data->id == id; list_del(pos); return;
RemoveFound ==
  /\ prog.pc = "body"
  /\ prog.arg \in IdAt(remove_item_data(prog.pos))
  /\ mem' = list_del_full(mem, prog.pos)
  /\ owner' = [c \in Cells |-> IF c = prog.pos THEN Null ELSE owner[c]]
  /\ prog' = [prog EXCEPT !.pc = "idle"]
  /\ UNCHANGED << impl, rtype, histVars, travVars, misuse, race, stolen >>

\* remove_item: data->id != id; pos = pos->next
RemoveAdvance ==
  /\ prog.pc = "body"
  /\ IdAt(remove_item_data(prog.pos)) # {prog.arg}
  /\ prog' = [prog EXCEPT !.pc = IF prog.pos \in Cells THEN "test" ELSE "crash",
                          !.pos = NextOf(mem, prog.pos)]
  /\ UNCHANGED << impl, rtype, mem, owner, histVars, travVars, misuse, race, stolen >>

ProgNext ==
  \/ MainStart
  \/ \E id \in Ids : AddItem(id)
  \/ \E id \in Ids : RemoveStart(id)
  \/ RemoveTest
  \/ RemoveFound
  \/ RemoveAdvance

ProgInit == Init /\ impl = "full"

ProgSpec == ProgInit /\ [][ProgNext]_vars

\* remove_item runs on: each step of its loop that can be taken is taken.
ProgLive ==
  /\ ProgSpec
  /\ WF_vars(RemoveTest)
  /\ WF_vars(RemoveFound \/ RemoveAdvance)

(***************************************************************************)
(* Properties.                                                             *)
(***************************************************************************)
S1 == Sentinel(1)

S2 == Sentinel(2)

A == Link(RecAddr(1))

B == Link(RecAddr(2))

C == Link(RecAddr(3))

Reverse(s) == [i \in 1..Len(s) |-> s[Len(s) + 1 - i]]

\* s without its elements equal to x, the others in their order.
Without(s, x) == SelectSeq(s, LAMBDA e : e # x)

IsPrefix(s, t) == Len(s) <= Len(t) /\ SubSeq(t, 1, Len(s)) = s

NoRepeat(s) == \A i, j \in 1..Len(s) : s[i] = s[j] => i = j

\* The sentinel and the links reachable from it.
RingLinks(h, hd) == {hd} \cup Members(h, hd)

\* L.next.prev == L and L.prev.next == L
Closed(h, L) ==
  /\ NextOf(h, L) \in Cells
  /\ PrevOf(h, L) \in Cells
  /\ PrevOf(h, NextOf(h, L)) = L
  /\ NextOf(h, PrevOf(h, L)) = L

RingClosed(h, hd) == \A L \in RingLinks(h, hd) : Closed(h, L)

Detached(h) == { x \in Pool : RingOf(h, x) = Null }

TypeOK ==
  /\ impl \in Impls
  /\ rtype \in RecTypes
  /\ mem.next \in [Cells -> Ptrs]
  /\ mem.prev \in [Cells -> Ptrs]
  /\ mem.fault = FALSE
  /\ \A hd \in Heads : pending[hd] \in 0..MaxNodes
  /\ \A x \in Cells : (owner[x] # Null) <=> (RingOf(mem, x) # Null)

\* C1: after every completed list_add, list_add_tail and list_del of a valid
\* sequence started on empty lists, every link reachable from a sentinel, the
\* sentinel included, satisfies L.next.prev == L and L.prev.next == L.
Thm_C1_RingClosure ==
  \A hd \in Heads : ForEachEnds(mem, hd) /\ RingClosed(mem, hd)

\* A ring of two members reached through head inserts, tail inserts and an unlink.
Wit_C1_RingClosure ==
  /\ pending[S1] = 2
  /\ insKind[S1] = "mixed"
  /\ lastUnlink.list = S1

\* C2: list_empty(head) is true exactly when as many unlinks as inserts have
\* been performed on the list, in particular right after INIT_LIST_HEAD.
Thm_C2_EmptyIffBalanced ==
  \A hd \in Heads : list_empty(mem, hd) <=> (pending[hd] = 0)

\* A list that is empty again after two inserts and two unlinks.
Wit_C2_EmptyIffBalanced ==
  /\ lastUnlink.list = S1
  /\ pending[S1] = 0
  /\ list_empty(mem, S1)
  /\ Cardinality({ x \in Pool : mem.next[x] # Uninit }) = 2

\* C3: n nodes inserted into an empty list with list_add_tail only are walked
\* by list_for_each in insertion order; inserted with list_add only, in reverse
\* insertion order; for every n >= 0.
Thm_C3_FifoLifo ==
  \A hd \in Heads :
    /\ insKind[hd] = "none" => list_for_each(mem, hd) = << >>
    /\ insKind[hd] = "add_tail" => list_for_each(mem, hd) = insLog[hd]
    /\ insKind[hd] = "add" => list_for_each(mem, hd) = Reverse(insLog[hd])

\* A list emptied by unlinks and filled again with three inserts at the head.
Wit_C3_FifoLifo ==
  /\ insKind[S1] = "add"
  /\ Len(insLog[S1]) = 3
  /\ lastUnlink.list = S1

\* C4: list_del removes exactly the unlinked member from the forward traversal
\* and keeps the others in their order; in the scenario, list_add_tail of A, B, C
\* is walked as A, B, C, after the unlink of B as A, C with list_empty false, and
\* after the unlinks of A and C list_empty is true.
ScenarioHolds ==
  /\ scen = 3 => list_for_each(mem, S1) = << A, B, C >>
  /\ scen = 4 => list_for_each(mem, S1) = << A, C >> /\ ~list_empty(mem, S1)
  /\ scen = 6 => list_empty(mem, S1)

UnlinkRemovesOne ==
  \A hd \in Heads :
    pending'[hd] = pending[hd] - 1 =>
      /\ lastUnlink'.list = hd
      /\ lastUnlink'.node \in Members(mem, hd)
      /\ list_for_each(mem', hd) = Without(list_for_each(mem, hd), lastUnlink'.node)
      /\ Len(list_for_each(mem', hd)) = Len(list_for_each(mem, hd)) - 1
      /\ \A o \in Heads \ {hd} : list_for_each(mem', o) = list_for_each(mem, o)

Thm_C4_UnlinkKeepsOrder == [] ScenarioHolds /\ [][UnlinkRemovesOne]_vars

\* The scenario has run to its end.
Wit_C4_UnlinkKeepsOrder == scen = 6 /\ lastUnlink.node = C

\* C5: a list_for_each_safe loop whose body unlinks every link it sees runs its
\* body exactly n times on a list of n members, ends, and leaves
\* head->next == head->prev == head.
UnlinkAllCounts ==
  (pc # "idle" /\ allDel) =>
    /\ Len(yielded) <= Len(orig)
    /\ pc = "test" => ((pos = thead) <=> (Len(yielded) = Len(orig)))
    /\ pc = "done" =>
         /\ Len(yielded) = Len(orig)
         /\ NextOf(mem, thead) = thead
         /\ PrevOf(mem, thead) = thead

Thm_C5_SafeUnlinkAll == [] UnlinkAllCounts /\ ((pc = "test") ~> (pc = "done"))

\* A loop over three members that unlinked each of them has ended.
Wit_C5_SafeUnlinkAll == pc = "done" /\ allDel /\ Len(orig) = 3

\* C6: whichever of the links it sees the body of a list_for_each_safe loop
\* unlinks, the loop yields every original member once, in the original order,
\* and its advance never reads the next pointer of an unlinked link, with either
\* list_del.
Thm_C6_SafeVisitsAll ==
  pc # "idle" =>
    /\ NoRepeat(orig)
    /\ IsPrefix(yielded, orig)
    /\ pc = "done" => yielded = orig
    /\ ~staleRead
    /\ ~mem.fault

\* A loop over three members has ended after unlinking some and keeping some,
\* with the list_del that sets the pointers of the entry to 0.
Wit_C6_SafeVisitsAll ==
  /\ pc = "done"
  /\ impl = "full"
  /\ Len(orig) = 3
  /\ Cardinality(Members(mem, thead)) = 1
  /\ list_for_each(mem, thead) = << orig[2] >>

\* C7: after a member x of ring R1 was unlinked and then inserted again, into R1
\* or into another ring R2, ring closure holds for R1, and when x went to R2 no
\* link reachable from R1's sentinel points to x.
Thm_C7_MoveKeepsRing ==
  LET x  == lastUnlink.node
      R1 == lastUnlink.list
      R2 == RingOf(mem, x)
  IN  (x \in Pool /\ R2 # Null) =>
        /\ RingClosed(mem, R1)
        /\ R2 # R1 =>
             \A L \in RingLinks(mem, R1) : NextOf(mem, L) # x /\ PrevOf(mem, L) # x

\* x was unlinked between two members of R1 and is now a member of R2.
Wit_C7_MoveKeepsRing ==
  /\ lastUnlink.list = S1
  /\ RingOf(mem, lastUnlink.node) = S2
  /\ pending[S1] = 2

\* C8: container_of applied to the address of the link embedded in a record gives
\* back the record pointer, with the link as first field (offset 0) and as a later
\* field (offset > 0): for every link a traversal yields, list_entry is the record
\* pointer whose link the caller inserted.
Thm_C8_OwnerRecovery ==
  /\ offsetof("item", "list") = 0
  /\ offsetof("my_data", "list") > 0
  /\ \A i \in 1..Len(recovered) :
       /\ recovered[i][2] \in Recs
       /\ recovered[i][1] = recovered[i][2]
       /\ yielded[i] = recovered[i][1] + offsetof(rtype, "list")

\* Three records with the link after an int field were recovered in a traversal.
Wit_C8_OwnerRecovery ==
  /\ rtype = "my_data"
  /\ Len(recovered) = 3
  /\ recovered[3][1] \in Recs

\* C9: for adjacent links prev and next (prev == next on an empty list) and a
\* node that is no ring member, right after __list_add(node, prev, next):
\* prev.next == node, node.prev == prev, node.next == next, next.prev == node.
Thm_C9_SpliceLinks ==
  \A hd \in Heads : \A p \in RingLinks(mem, hd) : \A x \in Detached(mem) :
    LET n == NextOf(mem, p)
        h == __list_add(mem, x, p, n)
    IN  /\ NextOf(h, p) = x
        /\ PrevOf(h, x) = p
        /\ NextOf(h, x) = n
        /\ PrevOf(h, n) = x
        /\ ~h.fault

\* The program built on __list_add has a ring of two members and a free node.
Wit_C9_SpliceLinks ==
  /\ impl = "full"
  /\ pending[S1] = 2
  /\ Detached(mem) # {}

\* C10: on every well-formed ring and for every node that is no member, list_add
\* of test-kernel-complete.c ends in the pointer state of
\* __list_add(new, head, head->next), and its list_add_tail in that of
\* __list_add(new, head->prev, head).
Thm_C10_InsertIsSplice ==
  \A hd \in Heads : \A x \in Detached(mem) :
    /\ list_add_complete(mem, x, hd) = __list_add(mem, x, hd, NextOf(mem, hd))
    /\ list_add_tail_complete(mem, x, hd) = __list_add(mem, x, PrevOf(mem, hd), hd)
    /\ list_add_full(mem, x, hd) = list_add_complete(mem, x, hd)
    /\ list_add_tail_full(mem, x, hd) = list_add_tail_complete(mem, x, hd)

\* A node unlinked before is free while the ring has two members.
Wit_C10_InsertIsSplice ==
  /\ pending[S1] = 2
  /\ lastUnlink.node \in Detached(mem)

\* The pointer value list_del of test-kernel-full.c leaves in an unlinked entry.
Poison == Null

\* Both pointers of x are x, or both are the poison value.
DetachedState(h, x) ==
  \/ NextOf(h, x) = x /\ PrevOf(h, x) = x
  \/ NextOf(h, x) = Poison /\ PrevOf(h, x) = Poison

\* C11: right after list_del(node) returns, node is detached: its two pointers
\* are both node itself or both the poison value, and neither is a former
\* neighbour of node.
UnlinkDetaches ==
  \A hd \in Heads :
    pending'[hd] = pending[hd] - 1 =>
      LET x == lastUnlink'.node
      IN  /\ DetachedState(mem', x)
          /\ NextOf(mem', x) \notin {NextOf(mem, x), PrevOf(mem, x)}
          /\ PrevOf(mem', x) \notin {NextOf(mem, x), PrevOf(mem, x)}

CE_C11_UnlinkDetaches == [][UnlinkDetaches]_vars

\* C13: on every ring reached from the empty list by valid inserts and unlinks,
\* list_for_each ends after as many steps as the ring has members, yields every
\* member once and never the sentinel.
Thm_C13_ForEachExact ==
  \A hd \in Heads :
    LET walk == list_for_each(mem, hd)
    IN  /\ ForEachEnds(mem, hd)
        /\ Len(walk) = pending[hd]
        /\ NoRepeat(walk)
        /\ Range(walk) \subseteq { x \in Pool : owner[x] # Null }
        /\ \A i \in 1..Len(walk) : walk[i] \notin Heads
        /\ Cardinality({ x \in Pool : owner[x] # Null }) = pending[S1] + pending[S2]

\* A ring of three members, built by inserts at both ends after an unlink.
Wit_C13_ForEachExact ==
  /\ pending[S1] = 3
  /\ insKind[S1] = "mixed"
  /\ lastUnlink.node # Null
  /\ Len(list_for_each(mem, S1)) = 3

\* C14: with two lists over one pool of nodes, inserts of non-members and
\* unlinks of members only, every node is reachable from at most one sentinel.
Thm_C14_OneRingPerNode ==
  \A x \in Cells :
    /\ Cardinality({ hd \in Heads : x \in Members(mem, hd) }) <= 1
    /\ x \in Heads => \A hd \in Heads : x \notin Members(mem, hd)

\* Both rings have members, one of them unlinked from the other ring before.
Wit_C14_OneRingPerNode ==
  /\ pending[S1] = 1
  /\ pending[S2] = 2
  /\ lastUnlink.list = S1
  /\ lastUnlink.node \in Members(mem, S2)

\* The links whose field f a step changes.
Changed(f) == { c \in Cells : mem'[f][c] # mem[f][c] }

\* The step is an insert of new between prev and next.
InsertFrame(new, prev, next) ==
  /\ Changed("next") \subseteq {new, prev}
  /\ Changed("prev") \subseteq {new, next}
  /\ NextOf(mem', new) = next /\ PrevOf(mem', new) = prev
  /\ NextOf(mem', prev) = new /\ PrevOf(mem', next) = new

\* The step is an unlink of entry from between prev and next.
UnlinkFrame(entry, prev, next) ==
  LET own == IF impl = "full" THEN {entry} ELSE {}
  IN  /\ Changed("next") \subseteq {prev} \cup own
      /\ Changed("prev") \subseteq {next} \cup own
      /\ NextOf(mem', prev) = next /\ PrevOf(mem', next) = prev

\* C17: an insert writes new.next, new.prev, prev.next and next.prev, an unlink
\* prev.next and next.prev and, where list_del resets the entry, the two pointers
\* of the entry; the pointers of every other link keep their values.
RingOpFrame ==
  \A hd \in Heads :
    /\ pending'[hd] = pending[hd] + 1 =>
         \E new \in Pool :
           /\ owner[new] = Null /\ owner'[new] # Null
           /\ \/ InsertFrame(new, hd, NextOf(mem, hd))
              \/ InsertFrame(new, PrevOf(mem, hd), hd)
    /\ pending'[hd] = pending[hd] - 1 =>
         LET x == lastUnlink'.node
         IN  UnlinkFrame(x, PrevOf(mem, x), NextOf(mem, x))

Thm_C17_RingOpFrame ==
  [][RingOpFrame /\ Cardinality(Changed("next")) + Cardinality(Changed("prev")) <= 4]_vars

\* After inserts at both ends, A was unlinked from between C and B.
Wit_C17_RingOpFrame ==
  /\ insKind[S1] = "mixed"
  /\ lastUnlink.node = A
  /\ impl = "complete"
  /\ list_for_each(mem, S1) = << C, B >>
  /\ NextOf(mem, A) = B /\ PrevOf(mem, A) = C

\* C12: a second list_del of a node, with no insert of that node since the
\* first, whatever was inserted and unlinked in between, changes no pointer of
\* another link and none of the node: the walk from every sentinel is as before.
SecondUnlinkIsNoOp ==
  (misuse.kind = "none" /\ misuse'.kind = "del") =>
    /\ \A c \in Cells : NextOf(mem', c) = NextOf(mem, c) /\ PrevOf(mem', c) = PrevOf(mem, c)
    /\ \A hd \in Heads : list_for_each(mem', hd) = list_for_each(mem, hd)

CE_C12_SecondUnlinkIsNoOp == [][SecondUnlinkIsNoOp]_vars

\* The links reachable from the sentinel hd for which ring closure fails.
Unclosed(h, hd) == { L \in RingLinks(h, hd) : ~Closed(h, L) }

\* A member of ring misuse.from was inserted into another ring, misuse.list.
CrossInserted ==
  /\ misuse.kind \in {"add", "add_tail"}
  /\ misuse.from # misuse.list

\* C15 as stated: after a member of ring R1 was inserted into another ring R2
\* without an unlink, ring closure fails for a link reachable from R1's sentinel
\* and for a link reachable from R2's sentinel.
CE_C15_CrossCorruptsBoth ==
  CrossInserted =>
    /\ Unclosed(mem, misuse.from) # {}
    /\ Unclosed(mem, misuse.list) # {}

\* C15, amended: after a member x of ring R1 was inserted into another ring R2
\* without an unlink, ring closure fails for a link reachable from R1's sentinel
\* and the walk from R1's sentinel never comes back to it, while ring closure
\* holds for every link reachable from R2's sentinel, x among them.
Thm_C15_CrossCorruptsSource ==
  CrossInserted =>
    /\ Unclosed(mem, misuse.from) # {}
    /\ ~ForEachEnds(mem, misuse.from)
    /\ misuse.node \in RingLinks(mem, misuse.from)
    /\ Unclosed(mem, misuse.list) = {}
    /\ ForEachEnds(mem, misuse.list)
    /\ misuse.node \in Members(mem, misuse.list)

\* The only member of the first ring was put at the tail of the second ring,
\* which had two members.
Wit_C15_CrossCorruptsSource ==
  /\ misuse.kind = "add_tail"
  /\ misuse.from = S1
  /\ misuse.list = S2
  /\ Len(list_for_each(mem, S2)) = 3
  /\ NextOf(mem, S1) = misuse.node

\* C16: a double insert, a double unlink and an unlink of the sentinel never
\* return normally with a ring left corrupted: the call ends in an error state.
CE_C16_MisuseFailsFast ==
  misuse.kind # "none" =>
    \/ mem.fault
    \/ \A hd \in Heads : ForEachEnds(mem, hd) /\ RingClosed(mem, hd)

\* Both calls of the race have returned.
RaceDone == race.on /\ \A t \in Contexts : race.th[t].at > NAccess(impl)

\* C18 as stated: two contexts insert the same detached node into the same list
\* with no lock; in every interleaving of their loads and stores the ring ends
\* with ring closure violated.
CE_C18_RaceAlwaysCorrupts ==
  RaceDone => Unclosed(mem, race.head) # {}

\* The two calls are both list_add or both list_add_tail.
SameKind == race.th[1].kind = race.th[2].kind

\* C18, amended: when one call runs after the other the ring ends with ring
\* closure violated; when the calls overlap and both are list_add or both
\* list_add_tail, it ends so only if a call loads the node from head->next or
\* head->prev, and otherwise the ring ends well-formed with the node as a
\* member.  No call ends in an error state.  (The loads and stores of a call,
\* run alone, are list_add and list_add_tail.)
Thm_C18_RaceCorruptsIfSeen ==
  /\ race.on => ~mem.fault
  /\ ~race.on =>
       \A x \in Pool : owner[x] = Null =>
         /\ RunFrom(impl, "add", 1, mem, x, S1, Null) = list_add(impl, mem, x, S1)
         /\ RunFrom(impl, "add_tail", 1, mem, x, S1, Null) = list_add_tail(impl, mem, x, S1)
  /\ RaceDone =>
       /\ ~race.overlap => Unclosed(mem, race.head) # {}
       /\ SameKind =>
            /\ Unclosed(mem, race.head) # {} => race.sawNew
            /\ ~race.sawNew =>
                 /\ race.overlap
                 /\ ForEachEnds(mem, race.head)
                 /\ race.th[1].new \in Members(mem, race.head)
                 /\ Len(list_for_each(mem, race.head)) =
                      Cardinality({ x \in Pool : owner[x] # Null }) + 1

\* Both calls have returned on a ring that had a member, one call having loaded
\* the node from the sentinel.
Wit_C18_RaceCorruptsIfSeen ==
  /\ RaceDone
  /\ race.sawNew
  /\ race.overlap
  /\ Unclosed(mem, race.head) # {}
  /\ \E x \in Pool : owner[x] # Null

\* C19: when another context unlinks the link a list_for_each_safe loop holds
\* as its next one, the loop goes on to that link: its advance reads the next
\* pointer of a link that is no member, its body is given that link, and with
\* the list_del that sets the pointers of the entry to 0 the pointer it reads
\* is null and the advance after it loads through a null pointer.
Thm_C19_SafeLoopNotMutatorSafe ==
  stolen # Null =>
    /\ stolen \notin Members(mem, thead)
    /\ (pc = "test" /\ pos = stolen) =>
         /\ staleRead
         /\ impl = "full" => nxt = Null
    /\ (pc = "body" /\ pos = stolen) => yielded[Len(yielded)] = stolen
    /\ pc = "done" => stolen \in Range(yielded) /\ impl = "complete"
    /\ pc = "crash" => stolen \in Range(yielded) /\ impl = "full" /\ nxt = Null

\* The body of the loop is given the link the other context unlinked, which
\* holds null pointers.
Wit_C19_SafeLoopNotMutatorSafe ==
  /\ pc = "body"
  /\ pos = stolen
  /\ pos \notin Members(mem, thead)
  /\ impl = "full"
  /\ nxt = Null
  /\ Len(yielded) = 2

\* C20: every add_item call of test-kernel-full.c inserts a link that is no
\* member yet: after main has initialised my_list and called add_item(1) and
\* add_item(2), my_list has two distinct members and ring closure holds.
CE_C20_AddItemTwoMembers ==
  (prog.pc # "off" /\ prog.main = 2) =>
    /\ ForEachEnds(mem, my_list)
    /\ Len(list_for_each(mem, my_list)) = 2
    /\ NoRepeat(list_for_each(mem, my_list))
    /\ RingClosed(mem, my_list)

\* C21: remove_item(id) of test-kernel-full.c, called in a state main reaches
\* by calls of add_item, returns: its walk from my_list.next finds a record with
\* the id and unlinks it, or reaches &my_list.
CE_C21_RemoveItemReturns ==
  (prog.pc = "test" /\ prog.removes = 1) ~> (prog.pc = "idle")

\* C22: the 16 remove_item subtracts is the byte offset of list in struct
\* my_data, so for every link it visits, the link add_item inserted, the record
\* it recovers is the record add_item wrote.
CE_C22_RemoveItemOffset ==
  /\ RemoveItemOffset = offsetof("my_data", "list")
  /\ (prog.pc = "body" /\ prog.pos \in Pool) =>
       /\ remove_item_data(prog.pos) = owner[prog.pos]
       /\ remove_item_data(prog.pos) = container_of(prog.pos, "my_data", "list")

\* The nodes the caller holds as inserted nowhere.
FreeNodes == { x \in Pool : owner[x] = Null }

\* C23: on every well-formed ring and for every node x that is no member,
\* list_add(x, head) or list_add_tail(x, head) followed at once by list_del(x)
\* gives the sentinel and every member the next and prev they had before.
Thm_C23_InsertUnlinkRoundTrip ==
  \A hd \in Heads : \A x \in FreeNodes :
    LET h1 == list_del(impl, list_add(impl, mem, x, hd), x)
        h2 == list_del(impl, list_add_tail(impl, mem, x, hd), x)
    IN  /\ \A c \in Cells \ {x} :
             /\ NextOf(h1, c) = NextOf(mem, c) /\ PrevOf(h1, c) = PrevOf(mem, c)
             /\ NextOf(h2, c) = NextOf(mem, c) /\ PrevOf(h2, c) = PrevOf(mem, c)
        /\ list_for_each(h1, hd) = list_for_each(mem, hd)
        /\ list_for_each(h2, hd) = list_for_each(mem, hd)
        /\ ~h1.fault /\ ~h2.fault

\* A ring of two members from which the node inserted last was unlinked again.
Wit_C23_InsertUnlinkRoundTrip ==
  /\ list_for_each(mem, S1) = << A, B >>
  /\ lastUnlink.node = C
  /\ owner[C] = Null
  /\ scen = Off

\* The heap with the two pointers of x set to vn and vp.
WithPointers(h, x, vn, vp) == SetPrev(SetNext(h, x, vn), x, vp)

\* The values the pointers of a node can hold before an insert: never written,
\* set to 0 by list_del, or left pointing at links by the list_del that resets
\* nothing.
PriorValues(hd) == {Uninit, Null} \cup RingLinks(mem, hd)

\* C25: the pointer state after list_add or list_add_tail of a node that is
\* neither the sentinel nor a member, the two pointers of the node included, is
\* the same whatever the node's next and prev held before the call.
Thm_C25_InsertIgnoresOldPointers ==
  \A hd \in Heads : \A x \in FreeNodes : \A vn, vp \in PriorValues(hd) :
    LET h == WithPointers(mem, x, vn, vp)
    IN  /\ list_add(impl, h, x, hd) = list_add(impl, mem, x, hd)
        /\ list_add_tail(impl, h, x, hd) = list_add_tail(impl, mem, x, hd)

\* One free node was never written, another holds what list_del left in it.
Wit_C25_InsertIgnoresOldPointers ==
  /\ pending[S1] = 1
  /\ \E x, y \in Detached(mem) :
       /\ NextOf(mem, x) = Uninit
       /\ NextOf(mem, y) # Uninit
       /\ lastUnlink.node = y

\* C24: two contexts run list_add (or list_add_tail) on one list with two
\* different nodes, neither a member.  When each call runs as a whole, one
\* after the other, as under a lock, the ring ends well-formed with both nodes
\* as members.  (With no lock the loads and stores of the calls can interleave
\* so that ring closure fails after both calls have returned: the witness.)
Thm_C24_LockedInsertsKeepRing ==
  /\ race.on => ~mem.fault
  /\ (RaceDone /\ ~race.overlap) =>
       /\ Unclosed(mem, race.head) = {}
       /\ ForEachEnds(mem, race.head)
       /\ NoRepeat(list_for_each(mem, race.head))
       /\ \A t \in Contexts : race.th[t].new \in Members(mem, race.head)
       /\ Len(list_for_each(mem, race.head)) =
            Cardinality({ x \in Pool : owner[x] # Null }) + 2

\* Two calls of list_add with different nodes have interleaved and returned,
\* and ring closure fails for a link reachable from the sentinel.
Wit_C24_LockedInsertsKeepRing ==
  /\ RaceDone
  /\ race.overlap
  /\ race.th[1].new # race.th[2].new
  /\ race.th[1].kind = "add" /\ race.th[2].kind = "add"
  /\ Unclosed(mem, race.head) # {}

\* C26 as stated: in every reachable state list_first_entry(head, T, member) is
\* the record that embeds the first member of the ring, and is never
\* container_of applied to the address of the sentinel.
CE_C26_FirstEntryIsRecord ==
  \A hd \in Heads :
    /\ NextOf(mem, hd) # hd
    /\ list_first_entry(mem, hd, rtype, "list") \in Recs
    /\ LinkOf(list_first_entry(mem, hd, rtype, "list"), rtype) \in Members(mem, hd)

\* C26, amended: in every reachable state in which the list is not empty,
\* list_first_entry(head, T, member) is the record that embeds the first member
\* of the ring, the record the caller inserted; on an empty list (head)->next is
\* the sentinel, and list_first_entry is container_of applied to the address of
\* the sentinel, which is no record.
Thm_C26_FirstEntryUnlessEmpty ==
  \A hd \in Heads :
    LET e == list_first_entry(mem, hd, rtype, "list")
    IN  IF list_empty(mem, hd)
        THEN /\ e = container_of(hd, rtype, "list")
             /\ e \notin Recs
        ELSE /\ NextOf(mem, hd) # hd
             /\ e \in Recs
             /\ e = owner[list_for_each(mem, hd)[1]]
             /\ LinkOf(e, rtype) = list_for_each(mem, hd)[1]

\* A was unlinked from the head of the ring: the first entry is the record of B.
Wit_C26_FirstEntryUnlessEmpty ==
  /\ list_for_each(mem, S1) = << B, C >>
  /\ lastUnlink.node = A
  /\ list_first_entry(mem, S1, rtype, "list") = RecAddr(2)
  /\ list_empty(mem, S2)

====
